---- MODULE Spec2Model ----
(***************************************************************************)
(* The USDA food-database synchronisation of calTrack: the auto-sync       *)
(* trigger (UsdaAutoSync.tsx), the orchestrator syncUsdaDatabase and the   *)
(* retry policy fetchWithRetry (usdaApi.ts), over the IndexedDB slots of   *)
(* usdaDb.ts.                                                              *)
(*                                                                         *)
(* The program is asynchronous and single-threaded: a state of the model   *)
(* is "which await is pending", and an action is the completion of that    *)
(* await followed by the synchronous code up to the next await.  The       *)
(* environment acts through the remote's responses, the AbortSignal and    *)
(* the closing/reloading of the page.                                      *)
(***************************************************************************)
EXTENDS Integers, Sequences, FiniteSets, TLC

(* ------------------------------------------------------------------ *)
(* Program constants                                                    *)
(* ------------------------------------------------------------------ *)
MAX_RETRIES == 5
INITIAL_BACKOFF_MS == 2000
RATE_LIMIT_WAIT_MS == 61000
PAGE_SIZE == 200
SYNC_VERSION == 2
dataTypes == <<"SR Legacy", "Foundation", "Branded">>

(* ------------------------------------------------------------------ *)
(* Bounds of the model                                                  *)
(* ------------------------------------------------------------------ *)
\* the largest partition of the remote dataset has this many pages
MaxPages == 3
\* non-success responses the remote gives over one history (wide scenarios)
MaxFaults == 1
\* page loads (processes) in one history
MaxSessions == 2

(* ------------------------------------------------------------------ *)
(* Values                                                               *)
(* ------------------------------------------------------------------ *)
NoResume == [none |-> TRUE]
NoMeta == [none |-> TRUE]
NoReq == [none |-> TRUE]
DataTypeIdx == 0 .. (Len(dataTypes) - 1)

RECURSIVE Pow2(_)
\* Math.pow(2, attempt)
Pow2(n) == IF n = 0 THEN 1 ELSE 2 * Pow2(n - 1)

\* Math.ceil(a / b) for a >= 0, b > 0
CeilDiv(a, b) == (a + b - 1) \div b

Max(a, b) == IF a >= b THEN a ELSE b
Min(a, b) == IF a <= b THEN a ELSE b

\* totalHits of a partition of the remote dataset: empty, ending on a page
\* boundary, or MaxPages pages with a short last page
HitChoices == {0, (MaxPages - 1) * PAGE_SIZE, MaxPages * PAGE_SIZE - 50}

VARIABLES
    resumeState,  \* IndexedDB: the resume checkpoint slot (NoResume when absent)
    syncInfo,     \* IndexedDB meta store, key "syncInfo" (NoMeta when absent)
    foods,        \* IndexedDB foods store: the pages whose batch is stored
    totalHits,    \* the remote: totalHits of each partition
    faultsLeft,   \* the remote: non-success responses it may still give
    session,      \* number of the current page load
    started,      \* UsdaAutoSync: the ref started.current
    inFlight,     \* sync bodies started and not yet settled in this page load
    aborted,      \* signal.aborted of the AbortSignal handed to the run
    run,          \* the pending await of the run and syncUsdaDatabase's locals
    call,         \* the locals of the fetchWithRetry call in progress
    hist,         \* what the current run has done so far (observation only)
    food,         \* Record Mapper: the raw record handed to it
    mapped,       \* Record Mapper: what it returned for food
    objectStore,  \* IndexedDB foods store record by record: fdcId -> record
    txn,          \* the storeUsdaFoods call in progress and its transaction
    search,       \* the searchUsdaLocal call in progress
    etl,          \* download-usda.mjs: the process
    disk          \* download-usda.mjs: the temporary directory and the output file

\* the state of the sync pipeline
syncvars == <<resumeState, syncInfo, foods, totalHits, faultsLeft, session, started,
              inFlight, aborted, run, call, hist>>
\* the state of the mapper, of the store operations and of the offline script
libvars == <<food, mapped, objectStore, txn, search, etl, disk>>

vars == <<resumeState, syncInfo, foods, totalHits, faultsLeft, session, started,
          inFlight, aborted, run, call, hist,
          food, mapped, objectStore, txn, search, etl, disk>>

(* ------------------------------------------------------------------ *)
(* The remote paginated source                                          *)
(* ------------------------------------------------------------------ *)
\* number of records of page p (1-based) of partition d in a PAGE_SIZE paging
PageLen(d, p) == Max(0, Min(PAGE_SIZE, totalHits[d] - (p - 1) * PAGE_SIZE))

(* ------------------------------------------------------------------ *)
(* usdaDb.ts                                                            *)
(* ------------------------------------------------------------------ *)
\* getUsdaMeta: the object it resolves with; it has no syncVersion property
getUsdaMeta ==
    IF syncInfo # NoMeta
    THEN [synced |-> TRUE, count |-> syncInfo.count, lastSync |-> syncInfo.lastSync]
    ELSE [synced |-> FALSE, count |-> 0, lastSync |-> 0]

\* updateSyncMeta(count): the record it puts under key "syncInfo"; new Date() is
\* abstracted to the number of the page load
updateSyncMeta(count) == [key |-> "syncInfo", count |-> count, lastSync |-> session]

\* JavaScript's obj.field >= v: an absent property reads undefined, and
\* undefined >= v is false
JsGe(obj, field, v) == field \in DOMAIN obj /\ obj[field] >= v
\* JavaScript's obj.field < v
JsLt(obj, field, v) == field \in DOMAIN obj /\ obj[field] < v

\* getResumeState / saveResumeState / clearResumeState: a singleton slot
getResumeState == resumeState
saveResumeState(cp) == cp
clearResumeState == NoResume

\* storeUsdaFoods(batch): one readwrite transaction putting every record
storeUsdaFoods(store, batch) == store \cup {batch}

(* ------------------------------------------------------------------ *)
(* Records of the run                                                   *)
(* ------------------------------------------------------------------ *)
\* a request body: {dataType: [dataTypes[dt]], pageSize, pageNumber}
Req(d, pageNumber, pageSize) == [dt |-> d, pageNumber |-> pageNumber, pageSize |-> pageSize]

IdleRun ==
    [pc |-> "idle", purpose |-> "none", signal |-> FALSE, resume |-> NoResume,
     startDataTypeIndex |-> 0, startPage |-> 1, totalStored |-> 0, grandTotal |-> 0,
     dtIdx |-> 0, firstPageNum |-> 1, totalPages |-> 0, page |-> 0]

\* got: how the last fetch() settled ("none", "response", "network", "abort");
\* last: the status of the last response; sent, n429, rateWaits, backoffWaits
\* count the requests, the 429 responses and the waits of the call
NoCall ==
    [fst |-> "none", attempt |-> 0, req |-> NoReq, sleepMs |-> 0, got |-> "none",
     last |-> 0, sent |-> 0, n429 |-> 0, rateWaits |-> 0, backoffWaits |-> 0]

\* declined: the last event was an effect that returned at the started guard
\* abortAt: the last page stored when the signal fired, and how many pages the
\* run had stored; prevCancelled: the previous run of this page load was cancelled
NoHist ==
    [outcome |-> "none", requested |-> {}, storedByRun |-> <<>>, abortAt |-> NoReq,
     abortLen |-> 0, declined |-> FALSE, progress |-> "none", metaSeen |-> FALSE,
     prevCancelled |-> FALSE]

\* the part of the state that the synchronous code between two awaits rewrites
Cur == [run |-> run, call |-> call, hist |-> hist]

\* signal?.aborted
SignalAborted(c) == c.run.signal /\ aborted

\* a variant of Throw: the checkpoint is cleared on the way out, as by a
\* finally block
ThrowThenClear(c, err) == [c EXCEPT !.run.pc = "clear", !.hist.outcome = err]

\* an exception leaves syncUsdaDatabase: the promise it returned rejects with err
Throw(c, err) == [c EXCEPT !.run.pc = "ended", !.hist.outcome = err]

\* an exception leaves fetchWithRetry, and syncUsdaDatabase does not catch it
CallThrow(c, err) == Throw([c EXCEPT !.call.fst = "threw"], err)

(* ------------------------------------------------------------------ *)
(* usdaApi.ts: sleep and fetchWithRetry                                 *)
(* ------------------------------------------------------------------ *)
\* sleep(ms, signal): rejects at once when the signal is already aborted,
\* else a timer is pending; kind is "rate" or "backoff" (observation)
sleep(c, ms, kind) ==
    IF SignalAborted(c)
    THEN CallThrow(c, "Sync cancelled")
    ELSE [c EXCEPT !.call.fst = "sleeping",
                   !.call.sleepMs = ms,
                   !.call.rateWaits = @ + (IF kind = "rate" THEN 1 ELSE 0),
                   !.call.backoffWaits = @ + (IF kind = "backoff" THEN 1 ELSE 0)]

\* a variant of BackoffMs: the wait does not double
BackoffMsFixed(attempt) == INITIAL_BACKOFF_MS

\* INITIAL_BACKOFF_MS * Math.pow(2, attempt)
BackoffMs(attempt) == INITIAL_BACKOFF_MS * Pow2(attempt)

\* the head of the for loop: the bound, the abort check, then fetch() is
\* issued and awaited
FetchAttempt(c) ==
    IF c.call.attempt > MAX_RETRIES
    THEN CallThrow(c, "USDA API: max retries exceeded")
    ELSE IF SignalAborted(c)
    THEN CallThrow(c, "Sync cancelled")
    ELSE [c EXCEPT !.call.fst = "inflight",
                   !.call.sent = @ + 1,
                   !.hist.requested = @ \cup {c.call.req}]

\* a call of fetchWithRetry(url, init(req), signal, onWaiting)
fetchWithRetry(c, req) ==
    FetchAttempt([c EXCEPT !.run.pc = "fetch",
                           !.call = [NoCall EXCEPT !.req = req]])

\* a variant of Continue: the attempt counter is not advanced
ContinueSameAttempt(c) == FetchAttempt(c)

\* `continue`: attempt++ and back to the head of the loop
Continue(c) == FetchAttempt([c EXCEPT !.call.attempt = @ + 1])

\* the catch block: err is the message of what was thrown inside the try
Catch(c, err) ==
    IF err = "Sync cancelled"
    THEN CallThrow(c, err)
    ELSE IF c.call.attempt < MAX_RETRIES
    THEN sleep(c, BackoffMs(c.call.attempt), "backoff")
    ELSE CallThrow(c, err)

\* res.ok
ResOk(status) == status >= 200 /\ status <= 299

\* a variant of OnResponse: no branch for 429, which is handled as any other
\* status that is not ok
OnResponseNoRateLimit(c, status) ==
    LET c1 == [c EXCEPT !.call.last = status, !.call.got = "response",
                        !.call.n429 = @ + (IF status = 429 THEN 1 ELSE 0)] IN
    IF ResOk(status)
    THEN [c1 EXCEPT !.call.fst = "returned", !.run.pc = "json"]
    ELSE IF status >= 500 /\ c1.call.attempt < MAX_RETRIES
    THEN sleep(c1, BackoffMs(c1.call.attempt), "backoff")
    ELSE Catch(c1, "USDA API error")

\* the try block once fetch() has resolved with a response of this status;
\* the throw of the last line happens inside the try, so the catch receives it
OnResponse(c, status) ==
    LET c1 == [c EXCEPT !.call.last = status, !.call.got = "response"] IN
    IF status = 429
    THEN sleep([c1 EXCEPT !.call.n429 = @ + 1], RATE_LIMIT_WAIT_MS, "rate")
    ELSE IF ResOk(status)
    THEN [c1 EXCEPT !.call.fst = "returned", !.run.pc = "json"]
    ELSE IF status >= 500 /\ c1.call.attempt < MAX_RETRIES
    THEN sleep(c1, BackoffMs(c1.call.attempt), "backoff")
    ELSE Catch(c1, "USDA API error")

(* ------------------------------------------------------------------ *)
(* usdaApi.ts: syncUsdaDatabase                                         *)
(* ------------------------------------------------------------------ *)
\* a variant of PartitionLoop: the loop bound is off by one, the last partition is
\* never downloaded
PartitionLoopSkipsLast(c, d) ==
    IF d < Len(dataTypes) - 1
    THEN fetchWithRetry(
            [c EXCEPT !.run.dtIdx = d,
                      !.run.purpose = "probe",
                      !.run.page = 1,
                      !.run.firstPageNum =
                          IF d = c.run.startDataTypeIndex THEN c.run.startPage ELSE 1],
            Req(d, 1, PAGE_SIZE))
    ELSE [c EXCEPT !.run.dtIdx = d, !.run.pc = "clear", !.run.purpose = "none"]

\* the for loop over dataTypes, entered with dtIdx = d: the probe request of
\* the partition, or, past the last partition, clearResumeState()
PartitionLoop(c, d) ==
    IF d < Len(dataTypes)
    THEN fetchWithRetry(
            [c EXCEPT !.run.dtIdx = d,
                      !.run.purpose = "probe",
                      !.run.page = 1,
                      !.run.firstPageNum =
                          IF d = c.run.startDataTypeIndex THEN c.run.startPage ELSE 1],
            Req(d, 1, PAGE_SIZE))
    ELSE [c EXCEPT !.run.dtIdx = d, !.run.pc = "clear", !.run.purpose = "none"]

\* the inner for loop, entered with page = p
PageLoop(c, p) ==
    IF p <= c.run.totalPages
    THEN IF SignalAborted(c)
         THEN Throw(c, "Sync cancelled")
         ELSE fetchWithRetry([c EXCEPT !.run.page = p, !.run.purpose = "page"],
                             Req(c.run.dtIdx, p, PAGE_SIZE))
    ELSE PartitionLoop([c EXCEPT !.run.startPage = 1], c.run.dtIdx + 1)

\* the loop asking each partition for its size, entered with dataType index d
CountLoop(c, d) ==
    IF d < Len(dataTypes)
    THEN fetchWithRetry([c EXCEPT !.run.dtIdx = d, !.run.purpose = "count"],
                        Req(d, 1, 1))
    ELSE PartitionLoop([c EXCEPT !.hist.progress = "fetching"],
                       c.run.startDataTypeIndex)

\* a variant of SyncStart: the page number of the checkpoint is not read
SyncStartAtPageOne(c, r) ==
    LET has == r # NoResume
        c1 == [c EXCEPT !.run.resume = r,
                        !.run.startDataTypeIndex = IF has THEN r.dataTypeIndex ELSE 0,
                        !.run.startPage = 1,
                        !.run.totalStored = IF has THEN r.totalStored ELSE 0,
                        !.run.grandTotal = IF has THEN r.grandTotal ELSE 0]
    IN  IF c1.run.grandTotal = 0
        THEN CountLoop(c1, 0)
        ELSE PartitionLoop([c1 EXCEPT !.hist.progress = "fetching"],
                           c1.run.startDataTypeIndex)

\* syncUsdaDatabase once getResumeState() has resolved with r
SyncStart(c, r) ==
    LET has == r # NoResume
        c1 == [c EXCEPT !.run.resume = r,
                        !.run.startDataTypeIndex = IF has THEN r.dataTypeIndex ELSE 0,
                        !.run.startPage = IF has THEN r.pageNumber ELSE 1,
                        !.run.totalStored = IF has THEN r.totalStored ELSE 0,
                        !.run.grandTotal = IF has THEN r.grandTotal ELSE 0]
    IN  IF c1.run.grandTotal = 0
        THEN CountLoop(c1, 0)
        ELSE PartitionLoop([c1 EXCEPT !.hist.progress = "fetching"],
                           c1.run.startDataTypeIndex)

\* a variant of AfterJson: the probe page is stored also when the partition is
\* resumed after its first page
AfterJsonStoresProbe(c) ==
    IF c.run.purpose = "count"
    THEN CountLoop([c EXCEPT !.run.grandTotal = @ + totalHits[c.run.dtIdx]],
                   c.run.dtIdx + 1)
    ELSE IF c.run.purpose = "probe"
    THEN [c EXCEPT !.run.totalPages = CeilDiv(totalHits[c.run.dtIdx], PAGE_SIZE),
                   !.run.pc = "store", !.call = NoCall]
    ELSE [c EXCEPT !.run.pc = "store", !.call = NoCall]

\* the code after `await res.json()` of each of the three requests
AfterJson(c) ==
    IF c.run.purpose = "count"
    THEN CountLoop([c EXCEPT !.run.grandTotal = @ + totalHits[c.run.dtIdx]],
                   c.run.dtIdx + 1)
    ELSE IF c.run.purpose = "probe"
    THEN LET c1 == [c EXCEPT !.run.totalPages = CeilDiv(totalHits[c.run.dtIdx], PAGE_SIZE)]
         IN  IF c1.run.firstPageNum = 1
             THEN [c1 EXCEPT !.run.pc = "store", !.call = NoCall]
             ELSE PageLoop(c1, Max(c1.run.firstPageNum, 2))
    ELSE [c EXCEPT !.run.pc = "store", !.call = NoCall]

\* the page whose batch is being stored
BatchOf(c) == [dt |-> c.run.dtIdx, page |-> c.run.page]

\* a variant of AfterStore: the count grows by PAGE_SIZE, not by batch.length
AfterStoreCountsFullPage(c) ==
    [c EXCEPT !.run.totalStored = @ + PAGE_SIZE,
              !.run.pc = "save",
              !.hist.progress = "storing",
              !.hist.storedByRun = Append(@, BatchOf(c))]

\* the code after `await storeUsdaFoods(batch)`: the count grows by
\* batch.length, progress is reported, saveResumeState(...) is awaited
AfterStore(c) ==
    [c EXCEPT !.run.totalStored = @ + PageLen(c.run.dtIdx, c.run.page),
              !.run.pc = "save",
              !.hist.progress = "storing",
              !.hist.storedByRun = Append(@, BatchOf(c))]

\* a variant of ResumeArg: the checkpoint records the page just stored, not the
\* next one
ResumeArgSamePage(c) ==
    [dataTypeIndex |-> c.run.dtIdx,
     pageNumber |-> c.run.page,
     totalStored |-> c.run.totalStored,
     grandTotal |-> c.run.grandTotal]

\* the argument of the pending saveResumeState call
ResumeArg(c) ==
    [dataTypeIndex |-> c.run.dtIdx,
     pageNumber |-> IF c.run.purpose = "probe" THEN 2 ELSE c.run.page + 1,
     totalStored |-> c.run.totalStored,
     grandTotal |-> c.run.grandTotal]

\* a variant of AfterSave: the page counter advances by two
AfterSaveSkipsPage(c) ==
    IF c.run.purpose = "probe"
    THEN PageLoop(c, Max(c.run.firstPageNum, 2))
    ELSE PageLoop(c, c.run.page + 2)

\* the code after `await saveResumeState(...)`
AfterSave(c) ==
    IF c.run.purpose = "probe"
    THEN PageLoop(c, Max(c.run.firstPageNum, 2))
    ELSE PageLoop(c, c.run.page + 1)

\* the code after `await updateSyncMeta(totalStored)`: the "done" event, and
\* the promise of syncUsdaDatabase resolves
AfterMeta(c) ==
    [c EXCEPT !.run.pc = "ended", !.hist.outcome = "done", !.hist.progress = "done"]

\* UsdaAutoSync.tsx line 19: meta.synced && meta.syncVersion >= SYNC_VERSION
AlreadySynced(meta) == meta.synced /\ JsGe(meta, "syncVersion", SYNC_VERSION)

\* a variant of AlreadyStarted: the guard is missing
NeverStarted == FALSE

\* UsdaAutoSync.tsx line 11: if (started.current) return
AlreadyStarted == started

\* sleep's abort listener: clearTimeout and reject; in the try block the catch
\* rethrows the "Sync cancelled" error, in the catch block it leaves directly
SleepRejected(c) == CallThrow(c, "Sync cancelled")

\* the last page stored for the sync so far, as partition and page number:
\* by this run, else as the checkpoint it resumed from records it
StoredSoFar(c) ==
    IF c.hist.storedByRun # <<>>
    THEN LET b == c.hist.storedByRun[Len(c.hist.storedByRun)]
         IN  [dt |-> b.dt, k |-> b.page]
    ELSE IF c.run.resume # NoResume
    THEN [dt |-> c.run.resume.dataTypeIndex, k |-> c.run.resume.pageNumber - 1]
    ELSE NoReq

(* ------------------------------------------------------------------ *)
(* The parts of the program that take no part in a sync run are at rest  *)
(* ------------------------------------------------------------------ *)
NoFood == [none |-> TRUE]
NoTxn == [state |-> "none"]
NoSearch == [pc |-> "idle"]
NoEtl == [pc |-> "idle"]
NoDisk == [none |-> TRUE]

\* no record is being mapped, no store or search call and no script is running
LibIdle ==
    /\ food = NoFood
    /\ mapped = NoFood
    /\ objectStore = {}
    /\ txn = NoTxn
    /\ search = NoSearch
    /\ etl = NoEtl
    /\ disk = NoDisk

(* ------------------------------------------------------------------ *)
(* Initial state                                                        *)
(* ------------------------------------------------------------------ *)
\* the dataset of the scenario in which one call can use up all its retries
SmallHits == [d \in DataTypeIdx |-> PAGE_SIZE - 50]

Scenarios ==
    {[hits |-> h, faults |-> MaxFaults] : h \in [DataTypeIdx -> HitChoices]}
        \cup {[hits |-> SmallHits, faults |-> MAX_RETRIES + 1]}

Init ==
    /\ resumeState = NoResume
    /\ syncInfo = NoMeta
    /\ foods = {}
    /\ \E sc \in Scenarios : totalHits = sc.hits /\ faultsLeft = sc.faults
    /\ session = 1
    /\ started = FALSE
    /\ inFlight = 0
    /\ aborted = FALSE
    /\ run = IdleRun
    /\ call = NoCall
    /\ hist = NoHist
    /\ LibIdle

(* ------------------------------------------------------------------ *)
(* Actions                                                              *)
(* ------------------------------------------------------------------ *)
Running == run.pc \notin {"idle", "ended"}

\* the state after the synchronous code that follows the completed await;
\* a run that ended has settled its promise
Apply(c) ==
    /\ run' = c.run
    /\ call' = c.call
    /\ hist' = [c.hist EXCEPT !.declined = FALSE]
    /\ inFlight' = IF c.run.pc = "ended" THEN inFlight - 1 ELSE inFlight

\* the effect of UsdaAutoSync runs (mount, or a repeated invocation of the
\* effect on the same component instance)
UsdaAutoSyncEffect ==
    /\ IF AlreadyStarted
       THEN /\ hist' = [hist EXCEPT !.declined = TRUE]
            /\ UNCHANGED <<started, inFlight, run, call, aborted>>
       ELSE /\ started' = TRUE
            /\ inFlight' = inFlight + 1
            /\ run' = [IdleRun EXCEPT !.pc = "getMeta"]
            /\ call' = NoCall
            /\ hist' = NoHist
            /\ aborted' = FALSE
    /\ UNCHANGED <<resumeState, syncInfo, foods, totalHits, faultsLeft, session>>
    /\ UNCHANGED libvars

\* getUsdaMeta() resolves: skip when already synced, else syncUsdaDatabase is
\* called without a signal and awaits getResumeState()
GetMetaDone ==
    /\ run.pc = "getMeta"
    /\ LET meta == getUsdaMeta IN
       IF AlreadySynced(meta)
       THEN Apply([Cur EXCEPT !.run.pc = "ended", !.hist.outcome = "skipped"])
       ELSE Apply([Cur EXCEPT !.run.pc = "getResume", !.hist.metaSeen = meta.synced])
    /\ UNCHANGED <<resumeState, syncInfo, foods, totalHits, faultsLeft, session,
                   started, aborted>>
    /\ UNCHANGED libvars

\* syncUsdaDatabase(onProgress, signal) is called with an AbortSignal by a caller
\* other than the auto-sync, once the auto-sync of this page load has settled
SyncWithSignal ==
    /\ started
    /\ inFlight = 0
    /\ run.pc = "ended"
    /\ run' = [IdleRun EXCEPT !.pc = "getResume", !.signal = TRUE]
    /\ call' = NoCall
    /\ hist' = [NoHist EXCEPT !.prevCancelled = (aborted /\ hist.outcome # "done")]
    /\ aborted' = FALSE
    /\ inFlight' = 1
    /\ UNCHANGED <<resumeState, syncInfo, foods, totalHits, faultsLeft, session, started>>
    /\ UNCHANGED libvars

GetResumeDone ==
    /\ run.pc = "getResume"
    /\ Apply(SyncStart(Cur, getResumeState))
    /\ UNCHANGED <<resumeState, syncInfo, foods, totalHits, faultsLeft, session,
                   started, aborted>>
    /\ UNCHANGED libvars

Awaiting(fst) == run.pc = "fetch" /\ call.fst = fst

\* the statuses the remote answers with besides 200 and 429
Status5xx == {503}
Status4xx == {404}

ResponseOk ==
    /\ Awaiting("inflight") /\ ~SignalAborted(Cur)
    /\ Apply(OnResponse(Cur, 200))
    /\ UNCHANGED <<resumeState, syncInfo, foods, totalHits, faultsLeft, session,
                   started, aborted>>
    /\ UNCHANGED libvars

Fault(c) ==
    /\ faultsLeft > 0
    /\ faultsLeft' = faultsLeft - 1
    /\ Apply(c)
    /\ UNCHANGED <<resumeState, syncInfo, foods, totalHits, session, started, aborted>>
    /\ UNCHANGED libvars

Response429 ==
    /\ Awaiting("inflight") /\ ~SignalAborted(Cur)
    /\ Fault(OnResponse(Cur, 429))

Response5xx ==
    /\ Awaiting("inflight") /\ ~SignalAborted(Cur)
    /\ \E s \in Status5xx : Fault(OnResponse(Cur, s))

Response4xx ==
    /\ Awaiting("inflight") /\ ~SignalAborted(Cur)
    /\ \E s \in Status4xx : Fault(OnResponse(Cur, s))

\* fetch() rejects: no response
NetworkError ==
    /\ Awaiting("inflight") /\ ~SignalAborted(Cur)
    /\ Fault(Catch([Cur EXCEPT !.call.got = "network"], "network error"))

\* fetch() rejects with an AbortError because the signal fired while in flight
FetchAborted ==
    /\ Awaiting("inflight") /\ SignalAborted(Cur)
    /\ Apply(Catch([Cur EXCEPT !.call.got = "abort"], "AbortError"))
    /\ UNCHANGED <<resumeState, syncInfo, foods, totalHits, faultsLeft, session,
                   started, aborted>>
    /\ UNCHANGED libvars

SleepElapsed ==
    /\ Awaiting("sleeping") /\ ~SignalAborted(Cur)
    /\ Apply(Continue(Cur))
    /\ UNCHANGED <<resumeState, syncInfo, foods, totalHits, faultsLeft, session,
                   started, aborted>>
    /\ UNCHANGED libvars

SleepCancelled ==
    /\ Awaiting("sleeping") /\ SignalAborted(Cur)
    /\ Apply(SleepRejected(Cur))
    /\ UNCHANGED <<resumeState, syncInfo, foods, totalHits, faultsLeft, session,
                   started, aborted>>
    /\ UNCHANGED libvars

JsonDone ==
    /\ run.pc = "json"
    /\ Apply(AfterJson(Cur))
    /\ UNCHANGED <<resumeState, syncInfo, foods, totalHits, faultsLeft, session,
                   started, aborted>>
    /\ UNCHANGED libvars

\* res.json() rejects: the body is not the JSON expected
JsonMalformed ==
    /\ run.pc = "json"
    /\ Fault(Throw(Cur, "SyntaxError"))

\* res.json() rejects with an AbortError: the signal fired while the body was read
JsonAborted ==
    /\ run.pc = "json" /\ SignalAborted(Cur)
    /\ Apply(Throw(Cur, "AbortError"))
    /\ UNCHANGED <<resumeState, syncInfo, foods, totalHits, faultsLeft, session,
                   started, aborted>>
    /\ UNCHANGED libvars

\* the transaction of storeUsdaFoods completes
StoreDone ==
    /\ run.pc = "store"
    /\ foods' = storeUsdaFoods(foods, BatchOf(Cur))
    /\ Apply(AfterStore(Cur))
    /\ UNCHANGED <<resumeState, syncInfo, totalHits, faultsLeft, session, started, aborted>>
    /\ UNCHANGED libvars

SaveDone ==
    /\ run.pc = "save"
    /\ resumeState' = saveResumeState(ResumeArg(Cur))
    /\ Apply(AfterSave(Cur))
    /\ UNCHANGED <<syncInfo, foods, totalHits, faultsLeft, session, started, aborted>>
    /\ UNCHANGED libvars

ClearDone ==
    /\ run.pc = "clear"
    /\ resumeState' = clearResumeState
    /\ Apply([Cur EXCEPT !.run.pc = "meta"])
    /\ UNCHANGED <<syncInfo, foods, totalHits, faultsLeft, session, started, aborted>>
    /\ UNCHANGED libvars

MetaDone ==
    /\ run.pc = "meta"
    /\ syncInfo' = updateSyncMeta(run.totalStored)
    /\ Apply(AfterMeta(Cur))
    /\ UNCHANGED <<resumeState, foods, totalHits, faultsLeft, session, started, aborted>>
    /\ UNCHANGED libvars

\* the holder of the AbortController calls abort()
Abort ==
    /\ Running /\ run.signal /\ ~aborted
    /\ aborted' = TRUE
    /\ hist' = [hist EXCEPT !.abortAt = StoredSoFar(Cur),
                             !.abortLen = Len(hist.storedByRun)]
    /\ UNCHANGED <<resumeState, syncInfo, foods, totalHits, faultsLeft, session,
                   started, inFlight, run, call>>
    /\ UNCHANGED libvars

\* the page is closed or reloaded at any moment: what is not in IndexedDB is lost
Reload ==
    /\ session < MaxSessions
    /\ session' = session + 1
    /\ started' = FALSE
    /\ inFlight' = 0
    /\ aborted' = FALSE
    /\ run' = IdleRun
    /\ call' = NoCall
    /\ hist' = NoHist
    /\ UNCHANGED <<resumeState, syncInfo, foods, totalHits, faultsLeft>>
    /\ UNCHANGED libvars

Next ==
    \/ UsdaAutoSyncEffect
    \/ GetMetaDone
    \/ SyncWithSignal
    \/ GetResumeDone
    \/ ResponseOk
    \/ Response429
    \/ Response5xx
    \/ Response4xx
    \/ NetworkError
    \/ FetchAborted
    \/ SleepElapsed
    \/ SleepCancelled
    \/ JsonDone
    \/ JsonMalformed
    \/ JsonAborted
    \/ StoreDone
    \/ SaveDone
    \/ ClearDone
    \/ MetaDone
    \/ Abort
    \/ Reload

Spec == Init /\ [][Next]_vars

\* the sync pipeline at rest, while the mapper, the store operations or the
\* offline script are looked at on their own
SyncIdle ==
    /\ resumeState = NoResume
    /\ syncInfo = NoMeta
    /\ foods = {}
    /\ totalHits = SmallHits
    /\ faultsLeft = 0
    /\ session = 1
    /\ started = FALSE
    /\ inFlight = 0
    /\ aborted = FALSE
    /\ run = IdleRun
    /\ call = NoCall
    /\ hist = NoHist

(* ------------------------------------------------------------------ *)
(* Strings                                                              *)
(* ------------------------------------------------------------------ *)
\* A string is a sequence of characters, a character a string of length 1.
\* The alphabet has two letters in both cases, the blank and the comma.
Chars == {"k", "K", "c", "C", " ", ","}

\* the characters the regular expression /[\s,]/ matches
Separators == {" ", ","}

\* the letters, small and capital, in the same order
SmallLetters ==
    <<"a", "b", "c", "d", "e", "f", "g", "h", "i", "j", "k", "l", "m", "n",
     "o", "p", "q", "r", "s", "t", "u", "v", "w", "x", "y", "z">>
CapitalLetters ==
    <<"A", "B", "C", "D", "E", "F", "G", "H", "I", "J", "K", "L", "M", "N",
     "O", "P", "Q", "R", "S", "T", "U", "V", "W", "X", "Y", "Z">>

toLowerChar(ch) ==
    IF \E i \in 1 .. Len(CapitalLetters) : CapitalLetters[i] = ch
    THEN SmallLetters[CHOOSE i \in 1 .. Len(CapitalLetters) : CapitalLetters[i] = ch]
    ELSE ch
toUpperChar(ch) ==
    IF \E i \in 1 .. Len(SmallLetters) : SmallLetters[i] = ch
    THEN CapitalLetters[CHOOSE i \in 1 .. Len(SmallLetters) : SmallLetters[i] = ch]
    ELSE ch

\* String.prototype.toLowerCase
toLowerCase(str) == [i \in 1 .. Len(str) |-> toLowerChar(str[i])]

\* String.prototype.includes
Includes(str, q) ==
    \E i \in 0 .. (Len(str) - Len(q)) : SubSeq(str, i + 1, i + Len(q)) = q

RECURSIVE TrimStart(_)
TrimStart(str) ==
    IF str # <<>> /\ str[1] = " " THEN TrimStart(Tail(str)) ELSE str

RECURSIVE TrimEnd(_)
TrimEnd(str) ==
    IF str # <<>> /\ str[Len(str)] = " "
    THEN TrimEnd(SubSeq(str, 1, Len(str) - 1))
    ELSE str

\* String.prototype.trim
Trim(str) == TrimEnd(TrimStart(str))

\* the length of the run of characters outside seps that str starts with
RunLen(str, seps) ==
    IF \A i \in 1 .. Len(str) : str[i] \notin seps
    THEN Len(str)
    ELSE (CHOOSE i \in 1 .. Len(str) :
              str[i] \in seps /\ \A j \in 1 .. (i - 1) : str[j] \notin seps) - 1

RECURSIVE SplitFilter(_)
\* str.split(/[\s,]+/).filter(Boolean): the maximal runs of characters that
\* are no separators, in order; the empty pieces are filtered out
SplitFilter(str) ==
    IF str = <<>> THEN <<>>
    ELSE IF str[1] \in Separators THEN SplitFilter(Tail(str))
    ELSE LET n == RunLen(str, Separators)
         IN  <<SubSeq(str, 1, n)>> \o SplitFilter(SubSeq(str, n + 1, Len(str)))

RECURSIVE SplitSpace(_)
\* str.split(" "): the pieces between single blanks, empty pieces included
SplitSpace(str) ==
    LET n == RunLen(str, {" "})
    IN  IF n = Len(str) THEN <<str>>
        ELSE <<SubSeq(str, 1, n)>> \o SplitSpace(SubSeq(str, n + 2, Len(str)))

RECURSIVE Join(_)
\* words.join(" ")
Join(words) ==
    IF words = <<>> THEN <<>>
    ELSE IF Len(words) = 1 THEN words[1]
    ELSE words[1] \o <<" ">> \o Join(Tail(words))

\* word.charAt(0).toUpperCase() + word.slice(1)
Capitalise(word) ==
    IF word = <<>> THEN <<>> ELSE <<toUpperChar(word[1])>> \o Tail(word)

\* words.slice(1)
Slice1(words) == SubSeq(words, 2, Len(words))

(* ------------------------------------------------------------------ *)
(* usdaApi.ts: the Record Mapper of the online sync                     *)
(* ------------------------------------------------------------------ *)
\* Numbers with decimals are held as integers: a raw nutrient value in
\* hundredths, a raw serving size in tenths, a rounded nutrient in tenths.
NUTRIENT_ENERGY == 1008

\* Math.round(n / d) for d > 0: the nearest integer, halves upwards
MathRound(n, d) == (2 * n + d) \div (2 * d)

\* extractNutrient(nutrients, id), in tenths: Math.round(n.value * 10) / 10 of
\* the first nutrient with that id, 0 when there is none
extractNutrient(nutrients, id) ==
    LET hits == {i \in 1 .. Len(nutrients) : nutrients[i].nutrientId = id}
    IN  IF hits = {} THEN 0
        ELSE MathRound(nutrients[CHOOSE i \in hits : \A j \in hits : i <= j].value, 10)

\* titleCase(str)
titleCase(str) ==
    LET words == SplitFilter(toLowerCase(str))
    IN  Join([i \in 1 .. Len(words) |-> Capitalise(words[i])])

\* a variant of ServingGramsOf: the serving size of the record is not read
ServingGramsAlways100(f) == 100

\* servingGrams of mapUsdaFood: Math.round(servingSize) when the record has a
\* serving size and it is > 0, else 100
ServingGramsOf(f) ==
    IF "servingSize" \in DOMAIN f /\ f.servingSize > 0
    THEN MathRound(f.servingSize, 10)
    ELSE 100

\* mapUsdaFood(food): always a record; fdcId is copied, so a raw record
\* without one gives a record without one
mapUsdaFood(f) ==
    LET servingGrams == ServingGramsOf(f)
        rec == [name |-> titleCase(f.description),
                nameLower |-> toLowerCase(f.description),
                calories |-> MathRound(
                    extractNutrient(f.foodNutrients, NUTRIENT_ENERGY) * servingGrams, 1000),
                servingGrams |-> servingGrams]
    IN  IF "fdcId" \in DOMAIN f THEN [fdcId |-> f.fdcId] @@ rec ELSE rec

(* ------------------------------------------------------------------ *)
(* download-usda.mjs: cleanName                                         *)
(* ------------------------------------------------------------------ *)
MAX_NAME_LENGTH == 80

\* the character U+2026 (horizontal ellipsis)
Ellipsis == "..."

\* name.slice(0, MAX_NAME_LENGTH - 1) + Ellipsis when name is longer than
\* MAX_NAME_LENGTH
Truncate(name) ==
    IF Len(name) > MAX_NAME_LENGTH
    THEN SubSeq(name, 1, MAX_NAME_LENGTH - 1) \o <<Ellipsis>>
    ELSE name

\* cleanName(str)
cleanName(str) ==
    LET name == titleCase(str)
        words == SplitSpace(name)
    IN  IF Len(words) >= 3 /\ toLowerCase(words[1]) = toLowerCase(words[2])
        THEN Truncate(Join(Slice1(words)))
        ELSE Truncate(name)

(* ------------------------------------------------------------------ *)
(* download-usda.mjs: a row of food.csv (main, step 4)                  *)
(* ------------------------------------------------------------------ *)
\* the row gives no entry
Skipped == [skipped |-> TRUE]

\* nutrients.get(fdcId)[0], in hundredths: the amount of the last matched
\* energy row of the food (lines 266-277), 0 when its rows are of other
\* nutrients
Cal100(f) ==
    LET hits == {i \in 1 .. Len(f.foodNutrients) :
                    f.foodNutrients[i].nutrientId = NUTRIENT_ENERGY}
    IN  IF hits = {} THEN 0
        ELSE f.foodNutrients[CHOOSE i \in hits : \A j \in hits : j <= i].value

\* sg (lines 301-302): servings holds the sizes > 0 only (lines 245-249)
EtlServingGrams(f) ==
    IF "servingSize" \in DOMAIN f /\ f.servingSize > 0
    THEN MathRound(f.servingSize, 10)
    ELSE 100

\* the callback of streamCSV(foodCsv, ...), lines 290-326: the tuple written
\* for the row, or Skipped
EtlRow(f) ==
    IF f.foodNutrients = <<>> THEN Skipped
    ELSE IF Cal100(f) <= 0 THEN Skipped
    ELSE LET sg == EtlServingGrams(f)
         IN  [fdcId |-> f.fdcId,
              name |-> cleanName(f.description),
              calories |-> MathRound(Cal100(f) * sg, 10000),
              servingGrams |-> sg]

(* ------------------------------------------------------------------ *)
(* The mapper on its own: one raw record, mapped by either path         *)
(* ------------------------------------------------------------------ *)
\* the longest description
MaxDesc == 5

RECURSIVE StringsUpTo(_, _)
\* the strings over the alphabet of at most n characters
StringsUpTo(alphabet, n) ==
    IF n = 0 THEN {<<>>}
    ELSE LET shorter == StringsUpTo(alphabet, n - 1)
         IN  shorter \cup {Append(str, ch) : str \in shorter, ch \in alphabet}

\* raw energy values (kcal per 100 units, in hundredths): 0, 0.04, 0.45,
\* 250 and 250.25
EnergyChoices == {0, 4, 45, 25000, 25025}

\* raw serving sizes (in tenths): 0, 0.4, 150 and 150.5
ServingChoices == {0, 4, 1500, 1505}

Energy(c) == <<[nutrientId |-> NUTRIENT_ENERGY, value |-> c]>>

\* the string of n characters ch
Repeat(ch, n) == [i \in 1 .. n |-> ch]

\* descriptions at and over MAX_NAME_LENGTH: one word of 80 and of 81
\* characters, and a repeated first word before a word of 80 characters
LongDescriptions ==
    {Repeat("k", MAX_NAME_LENGTH),
     Repeat("k", MAX_NAME_LENGTH + 1),
     <<"k", " ", "k", " ">> \o Repeat("k", MAX_NAME_LENGTH)}

\* raw records that differ in their numbers, and raw records that differ in
\* their description
RawFoods ==
    {[fdcId |-> 1, description |-> <<"k">>, foodNutrients |-> Energy(c), servingSize |-> sv] :
        c \in EnergyChoices, sv \in ServingChoices}
    \cup {[fdcId |-> 1, description |-> <<"k">>, foodNutrients |-> n] :
        n \in {Energy(c) : c \in EnergyChoices} \cup {<<>>}}
    \cup {[fdcId |-> 1, description |-> d, foodNutrients |-> Energy(25000)] :
        d \in StringsUpTo(Chars \ {"C"}, MaxDesc) \cup LongDescriptions}

MapperInit ==
    /\ SyncIdle
    /\ food \in RawFoods
    /\ mapped = NoFood
    /\ objectStore = {}
    /\ txn = NoTxn
    /\ search = NoSearch
    /\ etl = NoEtl
    /\ disk = NoDisk

\* the online sync maps the record (usdaApi.ts 226, 249)
MapUsdaFood ==
    /\ mapped = NoFood
    /\ mapped' = [by |-> "mapUsdaFood", rec |-> mapUsdaFood(food)]
    /\ UNCHANGED <<food, objectStore, txn, search, etl, disk>>
    /\ UNCHANGED syncvars

\* the offline script cleans the description of the row (download-usda.mjs 312)
CleanName ==
    /\ mapped = NoFood
    /\ mapped' = [by |-> "cleanName", rec |-> [name |-> cleanName(food.description)]]
    /\ UNCHANGED <<food, objectStore, txn, search, etl, disk>>
    /\ UNCHANGED syncvars

\* the offline script turns the row of food.csv into a tuple, or skips it
\* (download-usda.mjs 290-326)
EtlFoodRow ==
    /\ mapped = NoFood
    /\ "fdcId" \in DOMAIN food
    /\ mapped' = [by |-> "etl", rec |-> EtlRow(food)]
    /\ UNCHANGED <<food, objectStore, txn, search, etl, disk>>
    /\ UNCHANGED syncvars

MapperNext ==
    \/ MapUsdaFood
    \/ CleanName
    \/ EtlFoodRow

MapperSpec == MapperInit /\ [][MapperNext]_vars

(* ------------------------------------------------------------------ *)
(* usdaDb.ts: the foods store, record by record                         *)
(* ------------------------------------------------------------------ *)
\* IndexedDB accepts a record of the foods store only with a valid key at the
\* key path "fdcId" (openDb, line 19); put throws DataError otherwise
ValidKey(rec) == "fdcId" \in DOMAIN rec

\* a variant of put that adds the record beside the one stored under its key
putKeepsOld(store, rec) == store \cup {rec}

\* store.put(food) on a store with key path "fdcId": the record replaces the
\* one stored under the same key
put(store, rec) == {r \in store : r.fdcId # rec.fdcId} \cup {rec}

RECURSIVE PutLoop(_, _, _)
\* the loop of storeUsdaFoods (lines 53-55) from record i on: the store as the
\* transaction sees it, and the number of puts made when the loop ends or a
\* put throws
PutLoop(store, batch, i) ==
    IF i > Len(batch) \/ ~ValidKey(batch[i])
    THEN [store |-> store, puts |-> i - 1]
    ELSE PutLoop(put(store, batch[i]), batch, i + 1)

RECURSIVE CursorOrder(_)
\* the records of the store in the order of store.openCursor(): ascending key
CursorOrder(store) ==
    IF store = {} THEN <<>>
    ELSE LET first == CHOOSE r \in store : \A s \in store : r.fdcId <= s.fdcId
         IN  <<first>> \o CursorOrder(store \ {first})

\* the test of searchUsdaLocal, line 93
Matches(rec, q) ==
    \/ "nameLower" \in DOMAIN rec /\ Includes(rec.nameLower, q)
    \/ Includes(toLowerCase(rec.name), q)

(* ------------------------------------------------------------------ *)
(* The store operations on their own: storeUsdaFoods as the sync calls  *)
(* it on a mapped page, and searchUsdaLocal                             *)
(* ------------------------------------------------------------------ *)
MaxId == 2
MaxBatch == 2
MaxQuery == 2
MaxLimit == 2

\* the raw records of a page: two descriptions, with and without energy, and a
\* record whose fdcId is missing
DbRawFoods ==
    {[fdcId |-> id, description |-> d, foodNutrients |-> Energy(c)] :
        id \in 1 .. MaxId, d \in {<<"k", "k">>, <<"k", ",", "k">>}, c \in {0, 25000}}
    \cup {[description |-> <<"k", "k">>, foodNutrients |-> Energy(25000)]}

\* mapUsdaFood on each of these records
MappedFoods == [f \in DbRawFoods |-> mapUsdaFood(f)]

\* data.foods of a response
DbPages == UNION {[1 .. n -> DbRawFoods] : n \in 1 .. MaxBatch}

Queries == StringsUpTo({"k", "K", ",", " "}, MaxQuery)

DbInit ==
    /\ SyncIdle
    /\ food = NoFood
    /\ mapped = NoFood
    /\ objectStore = {}
    /\ txn = NoTxn
    /\ search = NoSearch
    /\ etl = NoEtl
    /\ disk = NoDisk

\* Transactions of overlapping scope of which one is readwrite run one after
\* the other in the order of their creation, so a call is taken up at the
\* creation of its transaction, when no other transaction on the store lives.
NoTransaction == txn.state = "none" /\ search = NoSearch

\* usdaApi.ts 249-250 (226-227 for the probe page): the page is mapped record
\* by record and handed to storeUsdaFoods, whose executor (usdaDb.ts 50-58)
\* opens the transaction and runs the put loop. A put that throws leaves the
\* executor: the promise is rejected, the handlers of lines 56-57 are never
\* installed, and the puts already made stay with the live transaction.
StoreUsdaFoodsCall ==
    /\ NoTransaction
    /\ \E page \in DbPages :
         LET batch == [i \in 1 .. Len(page) |-> MappedFoods[page[i]]]
             loop == PutLoop(objectStore, batch, 1)
             threw == loop.puts < Len(batch)
         IN  txn' = [state |-> "active",
                     promise |-> IF threw THEN "rejected" ELSE "pending",
                     handlers |-> ~threw,
                     failed |-> threw,
                     batch |-> batch,
                     puts |-> loop.puts,
                     work |-> loop.store,
                     before |-> objectStore]
    /\ UNCHANGED <<food, mapped, objectStore, search, etl, disk>>
    /\ UNCHANGED syncvars

\* storeUsdaFoods line 49: openDb rejects, the call rejects before any
\* transaction exists
StoreOpenFailed ==
    /\ NoTransaction
    /\ \E page \in DbPages :
         txn' = [state |-> "done", promise |-> "rejected", handlers |-> FALSE,
                 failed |-> TRUE,
                 batch |-> [i \in 1 .. Len(page) |-> MappedFoods[page[i]]],
                 puts |-> 0, work |-> objectStore, before |-> objectStore]
    /\ UNCHANGED <<food, mapped, objectStore, search, etl, disk>>
    /\ UNCHANGED syncvars

\* the transaction commits: its puts become the store; tx.oncomplete (line 56)
\* resolves the promise when it was installed
TxComplete ==
    /\ txn.state = "active"
    /\ objectStore' = txn.work
    /\ txn' = [txn EXCEPT !.state = "done",
                          !.promise = IF txn.handlers /\ txn.promise = "pending"
                                      THEN "resolved" ELSE @]
    /\ UNCHANGED <<food, mapped, search, etl, disk>>
    /\ UNCHANGED syncvars

\* a put request fails: its error event bubbles to tx.onerror (line 57), which
\* rejects the promise when it was installed, and the transaction aborts
TxRequestError ==
    /\ txn.state = "active"
    /\ txn.puts > 0
    /\ txn' = [txn EXCEPT !.state = "done",
                          !.failed = TRUE,
                          !.promise = IF txn.handlers /\ txn.promise = "pending"
                                      THEN "rejected" ELSE @]
    /\ UNCHANGED <<food, mapped, objectStore, search, etl, disk>>
    /\ UNCHANGED syncvars

\* the transaction aborts with no request in error (the commit fails: quota,
\* disk): an abort event and no error event is fired, and storeUsdaFoods
\* installs no tx.onabort
TxAbort ==
    /\ txn.state = "active"
    /\ txn' = [txn EXCEPT !.state = "done", !.failed = TRUE]
    /\ UNCHANGED <<food, mapped, objectStore, search, etl, disk>>
    /\ UNCHANGED syncvars

\* how the finished call left the store, for the transactions that follow:
\* with the whole batch written ("whole"), as it was before the call ("as
\* before"), or with some of the batch's records written ("part")
LeftStore ==
    IF (\A i \in 1 .. Len(txn.batch) : ValidKey(txn.batch[i]))
       /\ objectStore = PutLoop(txn.before, txn.batch, 1).store
    THEN "whole"
    ELSE IF objectStore = txn.before THEN "as before"
    ELSE "part"

\* the transaction is finished: later transactions no longer wait for it
\* (that it left part of its batch is kept for observation)
TxFinished ==
    /\ txn.state = "done"
    /\ txn' = IF LeftStore = "part" THEN [state |-> "none", last |-> "part"]
              ELSE NoTxn
    /\ UNCHANGED <<food, mapped, objectStore, search, etl, disk>>
    /\ UNCHANGED syncvars

\* searchUsdaLocal lines 75-84: a query that is short after trimming returns
\* [] at once; otherwise the cursor is opened, q being the query in lower case
SearchCall ==
    /\ NoTransaction
    /\ \E query \in Queries, limit \in 0 .. MaxLimit :
         search' = [pc |-> IF Len(Trim(query)) < 2 THEN "done" ELSE "scan",
                    query |-> query,
                    q |-> toLowerCase(query),
                    limit |-> limit,
                    at |-> 0,
                    tested |-> 0,
                    results |-> <<>>,
                    errored |-> FALSE]
    /\ UNCHANGED <<food, mapped, objectStore, txn, etl, disk>>
    /\ UNCHANGED syncvars

\* req.onsuccess, lines 85-97
CursorSuccess ==
    /\ search.pc = "scan"
    /\ LET records == CursorOrder(objectStore)
       IN  IF search.at >= Len(records) \/ Len(search.results) >= search.limit
           THEN search' = [search EXCEPT !.pc = "done"]
           ELSE LET rec == records[search.at + 1]
                IN  search' = [search EXCEPT
                        !.at = @ + 1,
                        !.tested = @ + 1,
                        !.results = IF Matches(rec, search.q) THEN Append(@, rec) ELSE @]
    /\ UNCHANGED <<food, mapped, objectStore, txn, etl, disk>>
    /\ UNCHANGED syncvars

\* req.onerror, line 98: the call resolves with []
CursorError ==
    /\ search.pc = "scan"
    /\ search' = [search EXCEPT !.pc = "done", !.results = <<>>, !.errored = TRUE]
    /\ UNCHANGED <<food, mapped, objectStore, txn, etl, disk>>
    /\ UNCHANGED syncvars

\* the caller has its result
SearchReturned ==
    /\ search.pc = "done"
    /\ search' = NoSearch
    /\ UNCHANGED <<food, mapped, objectStore, txn, etl, disk>>
    /\ UNCHANGED syncvars

DbNext ==
    \/ StoreUsdaFoodsCall
    \/ StoreOpenFailed
    \/ TxComplete
    \/ TxRequestError
    \/ TxAbort
    \/ TxFinished
    \/ SearchCall
    \/ CursorSuccess
    \/ CursorError
    \/ SearchReturned

DbSpec == DbInit /\ [][DbNext]_vars

(* ------------------------------------------------------------------ *)
(* scripts/download-usda.mjs: the offline script as a process           *)
(* ------------------------------------------------------------------ *)
\* DATASETS (lines 26-30): the dataType of each
DATASETS == <<"sr_legacy_food", "foundation_food", "branded_food">>

\* the most entries a run of the script writes
MaxEntries == 2

\* usda-foods.json at OUTPUT_PATH: a complete file, or what a write stream
\* leaves of it: "empty" once opened (flag "w" creates or truncates), "partial"
\* once the header or entries are flushed and the closing "]}" is not
OutputStates == {"absent", "complete", "empty", "partial"}

\* what a run finds on disk: TEMP_DIR left behind or not, a published file
\* from an earlier run or none
EtlInit ==
    /\ SyncIdle
    /\ food = NoFood
    /\ mapped = NoFood
    /\ objectStore = {}
    /\ txn = NoTxn
    /\ search = NoSearch
    /\ etl = [pc |-> "start", ds |-> 1, opened |-> FALSE, buffered |-> FALSE,
              entries |-> 0, code |-> 0, cause |-> "none"]
    /\ disk \in [tempDir : BOOLEAN, output : {"absent", "complete"}]

\* process.exit(code) with the temporary directory as it is
Exit(code, cause) == [etl EXCEPT !.pc = "exited", !.code = code, !.cause = cause]

\* an exception in main() rejects its promise; main().catch (lines 363-367)
\* removes TEMP_DIR and exits with status 1. Nothing closes, removes or
\* restores the file of the write stream.
Fatal(cause) ==
    /\ etl' = Exit(1, cause)
    /\ disk' = [disk EXCEPT !.tempDir = FALSE]

\* main(), lines 208-216: TEMP_DIR is recreated, the write stream on
\* OUTPUT_PATH is created and the JSON header is written to it (buffered: the
\* stream has no file descriptor yet)
EtlStart ==
    /\ etl.pc = "start"
    /\ etl' = [etl EXCEPT !.pc = "download", !.buffered = TRUE]
    /\ disk' = [disk EXCEPT !.tempDir = TRUE]
    /\ UNCHANGED <<food, mapped, objectStore, txn, search>>
    /\ UNCHANGED syncvars

\* the open of createWriteStream (line 214) is carried out: the file is
\* created or truncated. It runs off the main thread, at any time after the
\* stream is created, also while execSync blocks main()
StreamOpened ==
    /\ etl.pc \notin {"start", "exited"}
    /\ ~etl.opened
    /\ etl' = [etl EXCEPT !.opened = TRUE]
    /\ disk' = [disk EXCEPT !.output = "empty"]
    /\ UNCHANGED <<food, mapped, objectStore, txn, search>>
    /\ UNCHANGED syncvars

\* main() is suspended at an await and the event loop runs
AtAwait == etl.pc \in {"read", "foods", "close"}

\* buffered writes reach the file, while main() awaits
StreamFlush ==
    /\ AtAwait
    /\ etl.opened
    /\ etl.buffered
    /\ etl' = [etl EXCEPT !.buffered = FALSE]
    /\ disk' = [disk EXCEPT !.output = "partial"]
    /\ UNCHANGED <<food, mapped, objectStore, txn, search>>
    /\ UNCHANGED syncvars

\* downloadAndExtract, lines 186-189: curl succeeds
DownloadOk ==
    /\ etl.pc = "download"
    /\ etl' = [etl EXCEPT !.pc = "extract"]
    /\ UNCHANGED <<food, mapped, objectStore, txn, search, disk>>
    /\ UNCHANGED syncvars

\* downloadAndExtract, lines 186-189: curl fails, execSync throws
DownloadFails ==
    /\ etl.pc = "download"
    /\ Fatal("download")
    /\ UNCHANGED <<food, mapped, objectStore, txn, search>>
    /\ UNCHANGED syncvars

\* downloadAndExtract, lines 194-200: unzip succeeds
ExtractOk ==
    /\ etl.pc = "extract"
    /\ etl' = [etl EXCEPT !.pc = "find"]
    /\ UNCHANGED <<food, mapped, objectStore, txn, search, disk>>
    /\ UNCHANGED syncvars

\* downloadAndExtract, lines 194-200: unzip fails, execSync throws
ExtractFails ==
    /\ etl.pc = "extract"
    /\ Fatal("extract")
    /\ UNCHANGED <<food, mapped, objectStore, txn, search>>
    /\ UNCHANGED syncvars

\* lines 225-226 and 257-261: food.csv and food_nutrient.csv are found and
\* the nutrient file is filtered; main() goes on to read the inputs
FilesFound ==
    /\ etl.pc = "find"
    /\ etl' = [etl EXCEPT !.pc = "read"]
    /\ UNCHANGED <<food, mapped, objectStore, txn, search, disk>>
    /\ UNCHANGED syncvars

\* lines 226, 258, 165-167: a file or the nutrient_id column is missing
FilesMissing ==
    /\ etl.pc = "find"
    /\ Fatal("missing file")
    /\ UNCHANGED <<food, mapped, objectStore, txn, search>>
    /\ UNCHANGED syncvars

\* lines 230-284: categories, serving sizes and nutrients are read (awaits)
InputsRead ==
    /\ etl.pc = "read"
    /\ etl' = [etl EXCEPT !.pc = "foods"]
    /\ UNCHANGED <<food, mapped, objectStore, txn, search, disk>>
    /\ UNCHANGED syncvars

\* lines 290-326: a row of food.csv becomes an entry written to the stream
EntryWritten ==
    /\ etl.pc = "foods"
    /\ etl.entries < MaxEntries
    /\ etl' = [etl EXCEPT !.entries = @ + 1, !.buffered = TRUE]
    /\ UNCHANGED <<food, mapped, objectStore, txn, search, disk>>
    /\ UNCHANGED syncvars

\* lines 328-337 and 218: food.csv is at its end, the extracted files are
\* removed; the next dataset follows, or the closing of the JSON
DatasetDone ==
    /\ etl.pc = "foods"
    /\ etl' = IF etl.ds < Len(DATASETS)
              THEN [etl EXCEPT !.pc = "download", !.ds = @ + 1]
              ELSE [etl EXCEPT !.pc = "close", !.buffered = TRUE]
    /\ UNCHANGED <<food, mapped, objectStore, txn, search, disk>>
    /\ UNCHANGED syncvars

\* lines 340-344: "]}" is written and out.end() has finished: the file is
\* complete
StreamEnded ==
    /\ etl.pc = "close"
    /\ etl.opened
    /\ etl' = [etl EXCEPT !.pc = "size", !.buffered = FALSE]
    /\ disk' = [disk EXCEPT !.output = "complete"]
    /\ UNCHANGED <<food, mapped, objectStore, txn, search>>
    /\ UNCHANGED syncvars

\* lines 353-357: the file is over MAX_FILE_SIZE_MB: exit(1), TEMP_DIR stays
TooLarge ==
    /\ etl.pc = "size"
    /\ etl' = Exit(1, "size")
    /\ UNCHANGED <<food, mapped, objectStore, txn, search, disk>>
    /\ UNCHANGED syncvars

\* lines 359-360: TEMP_DIR is removed, main() returns, the process ends with
\* status 0
EtlDone ==
    /\ etl.pc = "size"
    /\ etl' = Exit(0, "none")
    /\ disk' = [disk EXCEPT !.tempDir = FALSE]
    /\ UNCHANGED <<food, mapped, objectStore, txn, search>>
    /\ UNCHANGED syncvars

EtlNext ==
    \/ EtlStart
    \/ StreamOpened
    \/ StreamFlush
    \/ DownloadOk
    \/ DownloadFails
    \/ ExtractOk
    \/ ExtractFails
    \/ FilesFound
    \/ FilesMissing
    \/ InputsRead
    \/ EntryWritten
    \/ DatasetDone
    \/ StreamEnded
    \/ TooLarge
    \/ EtlDone

EtlSpec == EtlInit /\ [][EtlNext]_vars

(* ------------------------------------------------------------------ *)
(* Category labels: mapCategory of usdaApi.ts and of download-usda.mjs  *)
(* ------------------------------------------------------------------ *)
\* usdaApi.ts 47-56: the tests of mapCategory in their order, each with the
\* words of its cat.includes(...) calls and the category it returns
IncludesRules ==
    <<[words |-> {<<"p", "o", "u", "l", "t", "r", "y">>,
                   <<"b", "e", "e", "f">>,
                   <<"p", "o", "r", "k">>,
                   <<"l", "a", "m", "b">>,
                   <<"f", "i", "s", "h">>,
                   <<"s", "e", "a", "f", "o", "o", "d">>,
                   <<"m", "e", "a", "t">>},
       category |-> "protein"],
      [words |-> {<<"d", "a", "i", "r", "y">>,
                   <<"c", "h", "e", "e", "s", "e">>,
                   <<"m", "i", "l", "k">>,
                   <<"y", "o", "g", "u", "r", "t">>},
       category |-> "dairy"],
      [words |-> {<<"c", "e", "r", "e", "a", "l">>,
                   <<"g", "r", "a", "i", "n">>,
                   <<"b", "r", "e", "a", "d">>,
                   <<"p", "a", "s", "t", "a">>,
                   <<"b", "a", "k", "e", "d">>,
                   <<"r", "i", "c", "e">>},
       category |-> "grain"],
      [words |-> {<<"f", "r", "u", "i", "t">>},
       category |-> "fruit"],
      [words |-> {<<"v", "e", "g", "e", "t", "a", "b", "l", "e">>,
                   <<"l", "e", "g", "u", "m", "e">>},
       category |-> "vegetable"],
      [words |-> {<<"n", "u", "t">>,
                   <<"s", "e", "e", "d">>},
       category |-> "snack"],
      [words |-> {<<"b", "e", "v", "e", "r", "a", "g", "e">>},
       category |-> "beverage"],
      [words |-> {<<"b", "e", "a", "n">>,
                   <<"p", "e", "a">>,
                   <<"l", "e", "n", "t", "i", "l">>},
       category |-> "legume"],
      [words |-> {<<"r", "e", "s", "t", "a", "u", "r", "a", "n", "t">>,
                   <<"f", "a", "s", "t", " ", "f", "o", "o", "d">>},
       category |-> "restaurant"]>>

\* a label that is not given (undefined); a label is a string otherwise
Undefined == <<"undefined">>

\* the first of the rules one of whose words the string contains, 0 when none
FirstRule(rules, c) ==
    LET hits == {i \in 1 .. Len(rules) : \E w \in rules[i].words : Includes(c, w)}
    IN  IF hits = {} THEN 0 ELSE CHOOSE i \in hits : \A j \in hits : i <= j

\* mapCategory(usdaCategory) of usdaApi.ts
mapCategory(usdaCategory) ==
    IF usdaCategory = Undefined \/ usdaCategory = <<>> THEN "usda"
    ELSE LET hit == FirstRule(IncludesRules, toLowerCase(usdaCategory))
         IN  IF hit = 0 THEN "usda" ELSE IncludesRules[hit].category

\* download-usda.mjs 43-51: the tests of mapCategory in their order, each with
\* the alternatives of its regular expression and the code it returns
RegexRules ==
    <<[words |-> {<<"p", "o", "u", "l", "t", "r", "y">>,
                   <<"b", "e", "e", "f">>,
                   <<"p", "o", "r", "k">>,
                   <<"l", "a", "m", "b">>,
                   <<"f", "i", "s", "h">>,
                   <<"s", "e", "a", "f", "o", "o", "d">>,
                   <<"m", "e", "a", "t">>},
       code |-> "p"],
      [words |-> {<<"d", "a", "i", "r", "y">>,
                   <<"c", "h", "e", "e", "s", "e">>,
                   <<"m", "i", "l", "k">>,
                   <<"y", "o", "g", "u", "r", "t">>},
       code |-> "d"],
      [words |-> {<<"c", "e", "r", "e", "a", "l">>,
                   <<"g", "r", "a", "i", "n">>,
                   <<"b", "r", "e", "a", "d">>,
                   <<"p", "a", "s", "t", "a">>,
                   <<"b", "a", "k", "e", "d">>,
                   <<"r", "i", "c", "e">>},
       code |-> "g"],
      [words |-> {<<"f", "r", "u", "i", "t">>},
       code |-> "f"],
      [words |-> {<<"v", "e", "g", "e", "t", "a", "b", "l", "e">>,
                   <<"l", "e", "g", "u", "m", "e">>},
       code |-> "v"],
      [words |-> {<<"n", "u", "t">>,
                   <<"s", "e", "e", "d">>},
       code |-> "s"],
      [words |-> {<<"b", "e", "v", "e", "r", "a", "g", "e">>},
       code |-> "b"],
      [words |-> {<<"b", "e", "a", "n">>,
                   <<"p", "e", "a">>,
                   <<"l", "e", "n", "t", "i", "l">>},
       code |-> "l"],
      [words |-> {<<"r", "e", "s", "t", "a", "u", "r", "a", "n", "t">>,
                   <<"f", "a", "s", "t", " ", "f", "o", "o", "d">>},
       code |-> "r"]>>

\* a variant of mapCategoryCode: the test for bean, pea and lentil comes before
\* the tests for nut and seed and for beverage
mapCategoryCodeLegumeFirst(cat) ==
    IF cat = Undefined \/ cat = <<>> THEN "u"
    ELSE LET c == toLowerCase(cat)
             hit == FirstRule(RegexRules, c)
         IN  IF hit = 0 THEN "u"
             ELSE IF \E w \in RegexRules[8].words : Includes(c, w)
                     /\ hit >= 6
             THEN RegexRules[8].code
             ELSE RegexRules[hit].code

\* mapCategory(cat) of download-usda.mjs: a regular expression of plain
\* alternatives matches when the string contains one of them
mapCategoryCode(cat) ==
    IF cat = Undefined \/ cat = <<>> THEN "u"
    ELSE LET hit == FirstRule(RegexRules, toLowerCase(cat))
         IN  IF hit = 0 THEN "u" ELSE RegexRules[hit].code

\* CATEGORY_MAP, download-usda.mjs 56-60
CATEGORY_MAP ==
    [p |-> "protein", d |-> "dairy", g |-> "grain", f |-> "fruit", v |-> "vegetable", s |-> "snack", b |-> "beverage", l |-> "legume", r |-> "restaurant", u |-> "usda"]

\* categories.get(fields[idx.food_category_id]) || "" (line 307)
CatDesc(label) == IF label = Undefined THEN <<>> ELSE label

(* ------------------------------------------------------------------ *)
(* The two category mappings on one label                               *)
(* ------------------------------------------------------------------ *)
\* the most words of a label
MaxLabelWords == 2

\* the words labels are made of: every word either mapping tests for, a word
\* that holds two of them (peanut), and two that hold none
Vocabulary ==
    UNION {IncludesRules[i].words : i \in 1 .. Len(IncludesRules)}
    \cup UNION {RegexRules[i].words : i \in 1 .. Len(RegexRules)}
    \cup {<<"p", "e", "a", "n", "u", "t">>,
          <<"s", "p", "i", "c", "e", "s">>,
          <<"f", "a", "s", "t", "f", "o", "o", "d">>}

RECURSIVE Phrases(_)
\* the words joined by single blanks, n of them at most
Phrases(n) ==
    IF n = 1 THEN Vocabulary
    ELSE LET shorter == Phrases(n - 1)
         IN  shorter \cup {p \o <<" ">> \o w : p \in shorter, w \in Vocabulary}

\* String.prototype.toUpperCase
toUpperCase(str) == [i \in 1 .. Len(str) |-> toUpperChar(str[i])]

\* the labels: none, the empty one, phrases in lower case, and single words
\* capitalised and in upper case
Labels ==
    {Undefined, <<>>} \cup Phrases(MaxLabelWords)
        \cup {Capitalise(w) : w \in Vocabulary} \cup {toUpperCase(w) : w \in Vocabulary}

NotMapped == [category |-> "none", code |-> "none"]

CategoryInit ==
    /\ SyncIdle
    /\ food \in {[foodCategory |-> l] : l \in Labels}
    /\ mapped = NotMapped
    /\ objectStore = {}
    /\ txn = NoTxn
    /\ search = NoSearch
    /\ etl = NoEtl
    /\ disk = NoDisk

\* the online mapper: category: mapCategory(food.foodCategory) (usdaApi.ts 87)
MapCategory ==
    /\ mapped.category = "none"
    /\ mapped' = [mapped EXCEPT !.category = mapCategory(food.foodCategory)]
    /\ UNCHANGED <<food, objectStore, txn, search, etl, disk>>
    /\ UNCHANGED syncvars

\* the offline script: mapCategory(catDesc) (download-usda.mjs 307, 319)
MapCategoryCode ==
    /\ mapped.code = "none"
    /\ mapped' = [mapped EXCEPT !.code = mapCategoryCode(CatDesc(food.foodCategory))]
    /\ UNCHANGED <<food, objectStore, txn, search, etl, disk>>
    /\ UNCHANGED syncvars

CategoryNext ==
    \/ MapCategory
    \/ MapCategoryCode

CategorySpec == CategoryInit /\ [][CategoryNext]_vars

(* ------------------------------------------------------------------ *)
(* One call of fetchWithRetry against a remote that may answer every    *)
(* request with a failure                                               *)
(* ------------------------------------------------------------------ *)
\* syncUsdaDatabase(onProgress, signal) has been called on an empty store and
\* has made its first call of fetchWithRetry
FirstCall ==
    SyncStart([run |-> [IdleRun EXCEPT !.pc = "getResume", !.signal = TRUE],
               call |-> NoCall,
               hist |-> NoHist],
              NoResume)

\* the failures the remote may answer with are more than the requests a call
\* makes
FetchInit ==
    /\ resumeState = NoResume
    /\ syncInfo = NoMeta
    /\ foods = {}
    /\ totalHits = SmallHits
    /\ faultsLeft \in 0 .. (MAX_RETRIES + 2)
    /\ session = 1
    /\ started = TRUE
    /\ inFlight = 1
    /\ aborted = FALSE
    /\ run = FirstCall.run
    /\ call = FirstCall.call
    /\ hist = FirstCall.hist
    /\ LibIdle

\* fetch() settles
FetchSettles ==
    \/ ResponseOk
    \/ Response429
    \/ Response5xx
    \/ Response4xx
    \/ NetworkError
    \/ FetchAborted

\* the wait of sleep() elapses or is cancelled
SleepSettles ==
    \/ SleepElapsed
    \/ SleepCancelled

FetchNext ==
    \/ FetchSettles
    \/ SleepSettles
    \/ Abort

\* every request is answered or fails, every wait elapses or is cancelled
FetchSpec ==
    /\ FetchInit
    /\ [][FetchNext]_vars
    /\ WF_vars(FetchSettles)
    /\ WF_vars(SleepSettles)

(* ------------------------------------------------------------------ *)
(* Definitions used by the properties                                   *)
(* ------------------------------------------------------------------ *)
Ended == run.pc = "ended"
Failed == Ended /\ hist.outcome \notin {"done", "skipped"}

\* number of pages of partition d
PagesIn(d) == CeilDiv(totalHits[d], PAGE_SIZE)

\* the checkpoint cp records page b as done
Covered(b, cp) ==
    /\ cp # NoResume
    /\ \/ b.dt < cp.dataTypeIndex
       \/ b.dt = cp.dataTypeIndex /\ b.page < cp.pageNumber

\* the pages of partition d from page `from` on; page 1 of a partition that is
\* started fresh is its probe page, stored even when the partition is empty
PartPages(d, from) ==
    LET hi == IF from = 1 THEN Max(1, PagesIn(d)) ELSE PagesIn(d)
    IN  [i \in 1 .. Max(0, hi - from + 1) |-> [dt |-> d, page |-> from + i - 1]]

RECURSIVE PagesFrom(_, _)
PagesFrom(d, from) ==
    IF d >= Len(dataTypes) THEN <<>> ELSE PartPages(d, from) \o PagesFrom(d + 1, 1)

\* the pages a run that starts from checkpoint r has to store, in order
Remaining(r) ==
    IF r = NoResume THEN PagesFrom(0, 1) ELSE PagesFrom(r.dataTypeIndex, r.pageNumber)

RECURSIVE SumLenTo(_, _)
\* the records of the first n pages of a sequence of pages
SumLenTo(q, n) ==
    IF n = 0 THEN 0 ELSE PageLen(q[n].dt, q[n].page) + SumLenTo(q, n - 1)

\* the records of a sequence of pages
SumLen(q) == SumLenTo(q, Len(q))

\* the checkpoint that records exactly the pages stored for the sync so far
CheckpointAfter(b) ==
    [dataTypeIndex |-> b.dt,
     pageNumber |-> b.page + 1,
     totalStored |-> (IF run.resume = NoResume THEN 0 ELSE run.resume.totalStored)
                        + SumLen(hist.storedByRun),
     grandTotal |-> run.grandTotal]

LastStored == hist.storedByRun[Len(hist.storedByRun)]

\* a request that only asks a partition for its size
IsCountReq(r) == r.pageSize = 1
IsProbeOf(r, d) == r = Req(d, 1, PAGE_SIZE)

\* the requests of the run for work the checkpoint r records as done
Refetched(r) ==
    {q \in hist.requested :
        \/ q.dt < r.dataTypeIndex
        \/ q.dt = r.dataTypeIndex /\ q.pageNumber < r.pageNumber}

C2_ClientErrorFailsAtOnce ==
    (call.got = "response" /\ call.last \in Status4xx) =>
        /\ call.fst = "threw"
        /\ hist.outcome = "USDA API error"
        /\ call.sent = call.attempt + 1
        /\ call.rateWaits + call.backoffWaits = call.attempt

(* ------------------------------------------------------------------ *)
(* C3                                                                   *)
(* ------------------------------------------------------------------ *)
\* the pages this run has stored that the persisted checkpoint does not record
Uncovered == {i \in 1 .. Len(hist.storedByRun) : ~Covered(hist.storedByRun[i], resumeState)}

IsNextPage(b, a) ==
    IF a = NoReq
    THEN b = [dt |-> 0, k |-> 1]
    ELSE \/ b.dt = a.dt /\ b.k = a.k + 1
         \/ b.dt = a.dt + 1 /\ b.k = 1

C5_SingleRun ==
    /\ [](inFlight <= 1)
    /\ [][(inFlight >= 1 /\ UsdaAutoSyncEffect) =>
              UNCHANGED <<run, call, inFlight, resumeState, syncInfo, foods>>]_vars

\* the effect fired again while the run was waiting for a checkpoint write
C5_Witness == hist.declined /\ inFlight = 1 /\ run.pc = "save"

(* ------------------------------------------------------------------ *)
(* C6                                                                   *)
(* ------------------------------------------------------------------ *)
\* C6: the auto-sync calls syncUsdaDatabase only when getUsdaMeta reported no
\* completed sync; after a completed run the next page load starts no run.
C6_NoRunOnceSynced == (Running /\ ~run.signal) => ~hist.metaSeen

(* ------------------------------------------------------------------ *)
(* C7                                                                   *)
(* ------------------------------------------------------------------ *)
\* C7: once a run has completed and written SyncMeta, the meta that the next
\* page load reads records the current version, so the trigger sees the
\* store as synced.
C7_MetaCurrentAfterSync == syncInfo # NoMeta => AlreadySynced(getUsdaMeta)

(* ------------------------------------------------------------------ *)
(* C8                                                                   *)
(* ------------------------------------------------------------------ *)
\* C8: SyncMeta is written and "done" is reported only with the checkpoint
\* cleared and every page from the resume point to the end stored; after
\* completion there is no checkpoint and SyncMeta holds the stored count.
C8_CompletionOrder ==
    /\ run.pc = "clear" => hist.storedByRun = Remaining(run.resume)
    /\ run.pc = "meta" =>
          /\ resumeState = NoResume
          /\ hist.storedByRun = Remaining(run.resume)
          /\ hist.progress # "done"
    /\ hist.progress = "done" <=> hist.outcome = "done"
    /\ hist.outcome = "done" =>
          /\ resumeState = NoResume
          /\ syncInfo = updateSyncMeta(run.totalStored)
          /\ hist.storedByRun = Remaining(run.resume)

\* a run has completed three partitions of more than one page
C8_Witness ==
    /\ hist.outcome = "done"
    /\ run.resume = NoResume
    /\ Len(hist.storedByRun) >= 6
    /\ syncInfo # NoMeta /\ syncInfo.count = SumLen(hist.storedByRun)

(* ------------------------------------------------------------------ *)
(* C9                                                                   *)
(* ------------------------------------------------------------------ *)
\* the last fetch() of the call failed with a 5xx response or did not answer
TransientFailure ==
    \/ call.got = "response" /\ call.last \in Status5xx
    \/ call.got = "network"

\* C9: after a 5xx response or a network failure on attempt a < MAX_RETRIES
\* the call sleeps INITIAL_BACKOFF_MS * 2^a and then sends the same request
\* as attempt a + 1; on attempt MAX_RETRIES the failure ends the call with
\* the error, MAX_RETRIES + 1 requests having been sent.
C9_BackoffThenRetry ==
    /\ [](TransientFailure =>
            \/ /\ call.fst = "sleeping"
               /\ call.attempt < MAX_RETRIES
               /\ call.sleepMs = INITIAL_BACKOFF_MS * (2 ^ call.attempt)
            \/ /\ call.fst = "inflight"
               /\ call.sent = call.attempt + 1
            \/ /\ call.fst = "threw"
               /\ \/ hist.outcome = "Sync cancelled"
                  \/ /\ call.attempt = MAX_RETRIES
                     /\ call.sent = MAX_RETRIES + 1
                     /\ hist.outcome = IF call.got = "network" THEN "network error"
                                       ELSE "USDA API error")
    /\ [][(Awaiting("sleeping") /\ TransientFailure /\ SleepElapsed) =>
              /\ call'.fst = "inflight"
              /\ call'.attempt = call.attempt + 1
              /\ call'.req = call.req
              /\ call'.sent = call.sent + 1]_vars
    /\ [][(Awaiting("inflight") /\ call.attempt = MAX_RETRIES
              /\ (Response5xx \/ NetworkError)) => call'.fst = "threw"]_vars

\* five backoff waits were used up and the sixth failure ended the call
C9_Witness ==
    /\ call.fst = "threw"
    /\ TransientFailure
    /\ call.attempt = MAX_RETRIES
    /\ call.backoffWaits = MAX_RETRIES
    /\ call.sent = MAX_RETRIES + 1

(* ------------------------------------------------------------------ *)
(* C10                                                                  *)
(* ------------------------------------------------------------------ *)
\* C10: a 429 response is followed by a wait of RATE_LIMIT_WAIT_MS and, the
\* wait over, by the next attempt of the same budget (no call sends more than
\* MAX_RETRIES + 1 requests, and a 429 on the last attempt ends the call after
\* the wait); a call that returns has made one rate-limit wait per 429 and
\* one backoff wait per other failure, so 429 then 200 returns after exactly
\* one rate-limit wait and no backoff wait.
C10_RateLimitWait ==
    /\ (call.got = "response" /\ call.last = 429) =>
          \/ call.fst = "sleeping" /\ call.sleepMs = RATE_LIMIT_WAIT_MS
          \/ call.fst = "inflight" /\ call.sent = call.attempt + 1
          \/ /\ call.fst = "threw"
             /\ \/ hist.outcome = "Sync cancelled"
                \/ /\ hist.outcome = "USDA API: max retries exceeded"
                   /\ call.attempt = MAX_RETRIES + 1
    /\ call.sent <= MAX_RETRIES + 1
    /\ call.n429 <= call.rateWaits
    /\ call.rateWaits + call.backoffWaits <= call.attempt + 1
    /\ call.fst = "returned" =>
          /\ call.last = 200
          /\ call.rateWaits = call.n429
          /\ call.backoffWaits = call.attempt - call.n429
          /\ call.sent = call.attempt + 1
          /\ (call.sent = 2 /\ call.n429 = 1) =>
                (call.rateWaits = 1 /\ call.backoffWaits = 0)

\* one 429, one rate-limit wait, then the 200 is returned
C10_Witness ==
    /\ call.fst = "returned"
    /\ call.last = 200
    /\ call.sent = 2
    /\ call.n429 = 1
    /\ call.rateWaits = 1

(* ------------------------------------------------------------------ *)
(* C11                                                                  *)
(* ------------------------------------------------------------------ *)
\* C11: once the signal has fired, the call of fetchWithRetry sends no further
\* request, and when it fails it fails with the "Sync cancelled" error, at
\* every attempt number and whether a request was in flight or a wait pending.
C11_CancelledIsSyncCancelled ==
    (run.signal /\ aborted /\ call.fst = "threw") => hist.outcome = "Sync cancelled"

(* ------------------------------------------------------------------ *)
(* C12                                                                  *)
(* ------------------------------------------------------------------ *)
\* the errors of a failure that is not retried (any more)
Unretryable ==
    {"USDA API error", "network error", "USDA API: max retries exceeded", "SyntaxError"}

\* C12: when a run ends on an unretryable failure (an HTTP error or a network
\* failure on the last attempt, the retries used up, a malformed body), the
\* persisted checkpoint is the one written after the last stored page (the
\* one the run started from when it stored nothing), SyncMeta is written by
\* no step but the one that completes a run, and the step of the failure
\* rejects the promise of syncUsdaDatabase with that error.
C12_FailureKeepsCheckpoint ==
    /\ []((Ended /\ hist.outcome \in Unretryable) =>
            resumeState = IF hist.storedByRun = <<>>
                          THEN run.resume
                          ELSE CheckpointAfter(LastStored))
    /\ [](call.attempt > MAX_RETRIES =>
            (Ended /\ hist.outcome = "USDA API: max retries exceeded"))
    /\ [][(syncInfo' # syncInfo) => hist'.outcome = "done"]_vars
    /\ [][(\/ JsonMalformed
           \/ /\ Awaiting("inflight") /\ call.attempt = MAX_RETRIES
              /\ (Response4xx \/ Response5xx \/ NetworkError)) =>
              /\ run'.pc = "ended"
              /\ hist'.outcome \in Unretryable
              /\ UNCHANGED <<resumeState, syncInfo, foods>>]_vars

\* a run that had stored two pages or more failed on a malformed body, and
\* the checkpoint of its last stored page is in place
C12_Witness ==
    /\ Ended
    /\ hist.outcome = "SyntaxError"
    /\ Len(hist.storedByRun) >= 2
    /\ resumeState = CheckpointAfter(LastStored)
    /\ syncInfo = NoMeta

(* ------------------------------------------------------------------ *)
(* C13                                                                  *)
(* ------------------------------------------------------------------ *)
\* page b is stored right after page a: the next page of the partition, or
\* the first page of the next partition when a was the last page of its own
StoredNext(a, b) ==
    \/ b.dt = a.dt /\ b.page = a.page + 1 /\ b.page <= PagesIn(a.dt)
    \/ b.dt = a.dt + 1 /\ b.page = 1 /\ a.page >= PagesIn(a.dt)

\* the first page a run has to store
FirstToStore ==
    IF run.resume = NoResume THEN [dt |-> 0, page |-> 1]
    ELSE IF run.resume.pageNumber <= PagesIn(run.resume.dataTypeIndex)
    THEN [dt |-> run.resume.dataTypeIndex, page |-> run.resume.pageNumber]
    ELSE [dt |-> run.resume.dataTypeIndex + 1, page |-> 1]

\* C13: the pages a run stores start at the resume page (page 1 of partition
\* 0 for a fresh run), each next one is the successor of the one before
\* (page numbers of a partition strictly increasing by one, partitions in the
\* order of dataTypes), no page is stored twice, and a run that completes has
\* reached the last page of the last partition.
C13_PagesInOrder ==
    LET q == hist.storedByRun
        last == Len(dataTypes) - 1
    IN  /\ q # <<>> => q[1] = FirstToStore
        /\ \A i \in 1 .. Len(q) - 1 : StoredNext(q[i], q[i + 1])
        /\ \A i, j \in 1 .. Len(q) : i < j =>
              \/ q[i].dt < q[j].dt
              \/ q[i].dt = q[j].dt /\ q[i].page < q[j].page
        /\ (hist.outcome = "done" /\ q # <<>>) =>
              q[Len(q)] = [dt |-> last, page |-> Max(1, PagesIn(last))]
        /\ (hist.outcome = "done" /\ q = <<>>) =>
              (run.resume # NoResume /\ FirstToStore.dt > last)

\* a run resumed at page 2 of the second partition has stored its pages 2 and
\* 3 and the pages of the third partition, and has completed
C13_Witness ==
    /\ hist.outcome = "done"
    /\ run.resume # NoResume
    /\ run.resume.dataTypeIndex = 1 /\ run.resume.pageNumber = 2
    /\ PagesIn(1) = 3 /\ PagesIn(2) >= 2
    /\ Len(hist.storedByRun) = 2 + PagesIn(2)

(* ------------------------------------------------------------------ *)
(* C14 .. C17: the foods store                                          *)
(* ------------------------------------------------------------------ *)
\* C14: every record that the sync has stored has calories > 0: a raw record
\* whose computed calories are 0 or less leaves no record in the foods store.
C14_StoredCaloriesPositive ==
    \A r \in objectStore : r.calories > 0

\* the store after every record of the batch has been written to `before`
AllWritten(before, batch) == PutLoop(before, batch, 1).store

\* C15: storeUsdaFoods is all-or-nothing: when a write of the batch has failed
\* the store is as before the call and the call has rejected, and when the call
\* has resolved every record of the batch is in the store.
C15_BatchAllOrNothing ==
    txn.state = "done" =>
        /\ txn.failed => objectStore = txn.before /\ txn.promise = "rejected"
        /\ txn.promise = "resolved" =>
              /\ \A i \in 1 .. Len(txn.batch) : ValidKey(txn.batch[i])
              /\ objectStore = AllWritten(txn.before, txn.batch)

\* the keys of a set of records
Keys(store) == {r.fdcId : r \in store}

\* the record written last under the key of record i of the batch
LastWritten(batch, i) ==
    LET same == {j \in 1 .. Len(batch) : batch[j].fdcId = batch[i].fdcId}
    IN  batch[CHOOSE j \in same : \A k \in same : k <= j]

\* C16: the foods store never holds two records under one fdcId; once a batch
\* is stored, each of its ids holds the record written last under it, and the
\* count of the store has grown by the number of ids that were new.
C16_UpsertLastWriteWins ==
    /\ \A r1, r2 \in objectStore : r1.fdcId = r2.fdcId => r1 = r2
    /\ (txn.state = "done" /\ txn.promise = "resolved") =>
          /\ \A i \in 1 .. Len(txn.batch) : LastWritten(txn.batch, i) \in objectStore
          /\ Cardinality(objectStore) =
                Cardinality(txn.before)
                + Cardinality({txn.batch[i].fdcId : i \in 1 .. Len(txn.batch)}
                              \ Keys(txn.before))

\* one id written twice with different values into the empty store, in one
\* batch: one record, the second one
C16_Witness ==
    /\ txn.state = "done"
    /\ txn.promise = "resolved"
    /\ txn.before = {}
    /\ Len(txn.batch) = 2
    /\ txn.batch[1].fdcId = txn.batch[2].fdcId
    /\ txn.batch[1].calories # txn.batch[2].calories
    /\ objectStore = {txn.batch[2]}

\* the records whose name contains the query, letter case ignored
NameMatches(store, query) ==
    {r \in store : Includes(toLowerCase(r.name), toLowerCase(query))}

\* C17: a search that ended without a cursor error returned only records whose
\* name contains the query, letter case ignored, exactly min(limit, number of
\* such records) of them, tested no record after it had limit results, and for
\* a query of fewer than 2 characters returned [] and tested no record.
C17_SearchByName ==
    (search.pc = "done" /\ ~search.errored) =>
        LET matching == NameMatches(objectStore, search.query)
        IN  /\ \A i \in 1 .. Len(search.results) : search.results[i] \in matching
            /\ Len(search.results) = Min(search.limit, Cardinality(matching))
            /\ Len(search.results) >= search.limit =>
                  (search.tested = 0 \/ Matches(CursorOrder(objectStore)[search.tested], search.q))
            /\ Len(search.query) < 2 => search.results = <<>> /\ search.tested = 0

(* ------------------------------------------------------------------ *)
(* C18                                                                  *)
(* ------------------------------------------------------------------ *)
\* food has been mapped by mapUsdaFood and carries an energy value
MappedWithEnergy ==
    /\ mapped # NoFood
    /\ mapped.by = "mapUsdaFood"
    /\ food.foodNutrients # <<>>

\* the raw energy value of food, in hundredths
RawEnergy == food.foodNutrients[1].value

\* food has a positive serving size
HasServing == "servingSize" \in DOMAIN food /\ food.servingSize > 0

ExpectedName(str) ==
    LET tokens == SplitFilter(toLowerCase(str))
        words == [i \in 1 .. Len(tokens) |-> Capitalise(tokens[i])]
    IN  IF Len(words) >= 2 /\ toLowerCase(words[1]) = toLowerCase(words[2])
        THEN Join(Slice1(words))
        ELSE Join(words)

\* C19: the name produced from a description, by mapUsdaFood and by cleanName
\* alike, is the title-cased description with the first token dropped whenever
\* the first two tokens are equal ignoring case, for any number of tokens >= 2.
C19_DuplicateFirstTokenDropped ==
    (mapped # NoFood /\ mapped.by \in {"mapUsdaFood", "cleanName"}) =>
        mapped.rec.name = ExpectedName(food.description)

(* ------------------------------------------------------------------ *)
(* C20: the offline script                                              *)
(* ------------------------------------------------------------------ *)
\* the process has ended on a failed download or extraction
DownloadOrExtractFailed ==
    etl.pc = "exited" /\ etl.cause \in {"download", "extract"}

\* C20: when a download or an extraction has failed, the process has exited
\* with a nonzero status, the temporary directory is gone, and the output path
\* holds no empty or unfinished usda-foods.json.
C20_FailureLeavesNoPartialOutput ==
    DownloadOrExtractFailed =>
        /\ etl.code # 0
        /\ ~disk.tempDir
        /\ disk.output \in {"absent", "complete"}

(* ------------------------------------------------------------------ *)
(* C21: what a run starts once its signal has fired                     *)
(* ------------------------------------------------------------------ *)
\* the step issues a fetch()
StartsRequest == call'.fst = "inflight" /\ (call.fst # "inflight" \/ call'.sent # call.sent)

\* the step starts the timer of a sleep()
StartsWait ==
    call'.fst = "sleeping"
        /\ call'.rateWaits + call'.backoffWaits # call.rateWaits + call.backoffWaits

\* the step calls storeUsdaFoods(batch)
StartsBatchWrite == run'.pc = "store" /\ run.pc # "store"

\* C21: once the signal of the run has fired, no step of the run issues a
\* request, starts a wait or calls storeUsdaFoods.
C21_NothingStartedAfterAbort ==
    [][(run.signal /\ aborted) =>
           ~StartsRequest /\ ~StartsWait /\ ~StartsBatchWrite]_vars

\* C21, the part that holds: no request and no wait
C21_NoRequestNoWaitAfterAbort ==
    [][(run.signal /\ aborted) => ~StartsRequest /\ ~StartsWait]_vars

(* ------------------------------------------------------------------ *)
(* C22, C23, C24, C29: the records the two mappers give                 *)
(* ------------------------------------------------------------------ *)
\* the offline script has dealt with the row
EtlMapped == mapped # NoFood /\ mapped.by = "etl"

\* C22: the offline script writes no tuple for a row without matched nutrient
\* data, and no tuple it writes has calories <= 0.
C22_EtlSkipsOnComputedCalories ==
    EtlMapped =>
        /\ food.foodNutrients = <<>> => mapped.rec = Skipped
        /\ mapped.rec # Skipped => mapped.rec.calories > 0

\* C23: every record in the foods store has a nameLower that is its name in
\* lower case.
C23_SearchKeyIsLowerName ==
    \A r \in objectStore : r.nameLower = toLowerCase(r.name)

\* a name has been produced from the description of food
NameMapped == mapped # NoFood /\ mapped.by \in {"mapUsdaFood", "cleanName"}

\* the name before any shortening: title case, and for cleanName the
\* removal of the repeated first word (download-usda.mjs 68-78)
FullName ==
    LET name == titleCase(food.description)
        words == SplitSpace(name)
    IN  IF mapped.by = "cleanName" /\ Len(words) >= 3
           /\ toLowerCase(words[1]) = toLowerCase(words[2])
        THEN Join(Slice1(words))
        ELSE name

\* C24: a name produced by mapUsdaFood or by cleanName has at most 80
\* characters; it is the full name when that has at most 80 characters, and
\* ends with the ellipsis otherwise.
C24_NameAtMost80 ==
    NameMapped =>
        LET name == mapped.rec.name
        IN  /\ Len(name) <= 80
            /\ Len(FullName) <= 80 => name = FullName
            /\ Len(FullName) > 80 => name[Len(name)] = Ellipsis

\* C24 for cleanName alone
C24_CleanNameAtMost80 ==
    (NameMapped /\ mapped.by = "cleanName") =>
        LET name == mapped.rec.name
        IN  /\ Len(name) <= 80
            /\ Len(FullName) <= 80 => name = FullName
            /\ Len(FullName) > 80 => name[Len(name)] = Ellipsis

\* C29: every record produced by mapUsdaFood or written by the offline script
\* has servingGrams >= 1.
C29_ServingGramsAtLeastOne ==
    (mapped # NoFood /\ mapped.by \in {"mapUsdaFood", "etl"} /\ mapped.rec # Skipped) =>
        mapped.rec.servingGrams >= 1

(* ------------------------------------------------------------------ *)
(* C30: the two category mappings                                       *)
(* ------------------------------------------------------------------ *)
\* the names CATEGORY_MAP expands to: the category enumeration
Categories == {CATEGORY_MAP[code] : code \in DOMAIN CATEGORY_MAP}

\* both mappings have been applied to the label
BothMapped == mapped.category # "none" /\ mapped.code # "none"

\* C30: for every label, the code of the offline script expanded through
\* CATEGORY_MAP is the category of the online mapCategory, and it is one of
\* the categories of the enumeration.
C30_CategoryMappingsAgree ==
    BothMapped =>
        /\ mapped.code \in DOMAIN CATEGORY_MAP
        /\ CATEGORY_MAP[mapped.code] = mapped.category
        /\ mapped.category \in Categories

\* a label that holds words of two tests, "PEANUT" (nut before pea): snack on
\* both sides
C30_Witness ==
    /\ BothMapped
    /\ food.foodCategory = <<"P", "E", "A", "N", "U", "T">>
    /\ mapped.category = "snack"
    /\ mapped.code = "s"

(* ------------------------------------------------------------------ *)
(* C28: fetchWithRetry terminates                                       *)
(* ------------------------------------------------------------------ *)
\* the call of fetchWithRetry has returned a response or thrown
CallEnded == call.fst \in {"returned", "threw"}

\* C28: whatever the remote answers, a call of fetchWithRetry sends at most
\* MAX_RETRIES + 1 requests and in the end returns or throws, when every
\* request settles and every wait elapses or is cancelled.
C28_FetchWithRetryTerminates ==
    /\ [](call.sent <= MAX_RETRIES + 1)
    /\ <>CallEnded

\* MAX_RETRIES + 1 requests were sent, every one answered by 429, and the call
\* has thrown
C28_Witness ==
    /\ call.fst = "threw"
    /\ call.sent = MAX_RETRIES + 1
    /\ call.n429 = MAX_RETRIES + 1
    /\ hist.outcome = "USDA API: max retries exceeded"

(* ------------------------------------------------------------------ *)
(* C27: the checkpoint and the meta record                              *)
(* ------------------------------------------------------------------ *)
\* a later trigger would not start at partition 0, page 1: there is a
\* checkpoint to resume from, or a meta record of a finished sync
Anchored == resumeState # NoResume \/ syncInfo # NoMeta

\* C27: once a page is checkpointed, every later state has a checkpoint or a
\* meta record: no step takes the store from a state with one of the two to
\* a state with neither.
C27_NeverBackToStart ==
    [][Anchored => Anchored']_vars

(* ------------------------------------------------------------------ *)
(* C26: the count of the meta record                                    *)
(* ------------------------------------------------------------------ *)
RECURSIVE HitsFrom(_, _)
\* the records of partition d and the partitions after it in a remote with
\* the totalHits h
HitsFrom(h, d) == IF d >= Len(dataTypes) THEN 0 ELSE h[d] + HitsFrom(h, d + 1)

\* the records of each remote of Scenarios
RemoteRecords == [h \in {sc.hits : sc \in Scenarios} |-> HitsFrom(h, 0)]

\* the records of all pages of all partitions, each page once
AllRecords == RemoteRecords[totalHits]

\* the same number, summed over the pages a fresh run has to store
C26_AllRecordsArePagesSummed == AllRecords = SumLen(PagesFrom(0, 1))

\* C26: the count of the meta record is the number of records of all pages of
\* all partitions, each page counted once, however the sync was interrupted
\* and resumed on the way.
C26_MetaCountsEveryPageOnce ==
    syncInfo # NoMeta => syncInfo.count = AllRecords

\* a run that resumed in the middle of the second partition, after a page
\* load that stored pages and was interrupted, has written the count
C26_Witness ==
    /\ run.pc = "ended" /\ hist.outcome = "done"
    /\ session = 2
    /\ run.resume # NoResume
    /\ run.resume.dataTypeIndex = 1 /\ run.resume.pageNumber = 2
    /\ run.resume.totalStored > 0
    /\ syncInfo # NoMeta
    /\ syncInfo.count = AllRecords
    /\ AllRecords > run.resume.totalStored + PAGE_SIZE

(* ------------------------------------------------------------------ *)
(* C25: a search between the batches of a sync                          *)
(* ------------------------------------------------------------------ *)
\* a search reads the store between the storeUsdaFoods calls of the sync
SearchRuns == search.pc \in {"scan", "done"}

\* C25: a search that runs between the batches of a sync sees the batches
\* whole: the store it reads was left by the last storeUsdaFoods call with
\* every record of its batch or with none of them.
C25_SearchSeesWholeBatches ==
    SearchRuns => ~("last" \in DOMAIN txn /\ txn.last = "part")

====
